---- MODULE Spec2Model ----
(***************************************************************************)
(* A model of microbench's capture-and-emit pipeline                       *)
(* (src/microbench/__init__.py): MicroBench.__call__.inner and its pre-run *)
(* and post-run triggers, the JSON encoder, output_result for a stream and *)
(* for a file path, and the TelemetryThread that samples beside the call.  *)
(*                                                                         *)
(* One invocation of a wrapped function is one entry of inv; the sampler   *)
(* thread that invocation i creates is thr[i].  Python values are tagged   *)
(* records [t |-> <type>, v |-> <payload>].                                *)
(***************************************************************************)
EXTENDS Integers, Sequences, FiniteSets, TLC

\* ---------------------------------------------------------------- bounds
\* invocations of the wrapped function in one behaviour
MaxCalls == 2
\* samples one TelemetryThread takes before the model stops following it
MaxSamples == 2
\* largest reading of the wall clock
MaxTime == 1

Calls == 1..MaxCalls

\* ---------------------------------------------------------- Python values
IntVal == [t |-> "int", v |-> 1]
ObjVal == [t |-> "object", v |-> 0]
NoneVal == [t |-> "none", v |-> 0]
FuncVal == [t |-> "function", v |-> 0]
StrVal(n) == [t |-> "str", v |-> n]
DatetimeVal(n) == [t |-> "datetime", v |-> n]
ListVal(s) == [t |-> "list", v |-> s]
DictVal(f) == [t |-> "dict", v |-> f]
\* a reference to the list object shared with TelemetryThread i (its slot)
SlotRef(i) == [t |-> "slot", v |-> i]

EmptyDict == [k \in {} |-> NoneVal]

\* d[k] = v on a Python dict
Put(d, k, v) == (k :> v) @@ d

\* func.__name__ of the one wrapped function of the model
FuncName == StrVal(0)

\* ------------------------------------------------------------ the inputs
\* the (args, kwargs) a caller passes: f(1), and f(1, object(), arg2=object())
CallChoices == {<<(<<IntVal>>), EmptyDict>>,
                <<(<<IntVal, ObjVal>>), [arg2 |-> ObjVal]>>}
\* what the wrapped function does when it is run
FuncBehaviours == {"return_int", "return_obj", "raise"}
Mixins == {"MBFunctionCall", "MBReturnValue", "MBLineProfiler"}
\* keyword arguments of MicroBench.__init__ (self._bm_static)
StaticChoices == {[some_info |-> IntVal]}

\* iterations = 3 of test_multi_iterations
Iterations == 3

\* MicroBench(some_info=...), MicroBench(some_info=..., _tag=...) and
\* MicroBench(iterations=3): each keyword argument becomes an entry of
\* self._bm_static
SomeInfo == [some_info |-> IntVal]
TaggedStatic == ("_tag" :> IntVal) @@ SomeInfo
IterationsStatic == [iterations |-> [t |-> "int", v |-> Iterations]]

\* ----------------------------------------------------------- JSONEncoder
\* the types json.JSONEncoder encodes by itself; every other value is
\* handed to JSONEncoder.default
NativeJson(x) == x.t \in {"int", "str", "b64str", "none", "list", "dict"}

\* JSONEncoder.default: a datetime is returned as isoformat(); anything else
\* reaches json.JSONEncoder.default, which raises TypeError
DefaultRaises(o) == o.t # "datetime"

RECURSIVE Encodable(_)
\* json.dumps(bm_data, cls=JSONEncoder) completes without TypeError
Encodable(x) ==
    CASE x.t \in {"list", "dict"} -> \A k \in DOMAIN x.v : Encodable(x.v[k])
      [] OTHER -> NativeJson(x) \/ ~DefaultRaises(x)

RECURSIVE Encode(_)
\* the JSON text json.dumps produces, as a tree of JSON values
Encode(x) ==
    CASE x.t = "int" -> [t |-> "number", v |-> x.v]
      [] x.t = "str" -> [t |-> "string", v |-> x.v]
      [] x.t = "b64str" -> [t |-> "b64string", v |-> x.v]
      [] x.t = "none" -> [t |-> "null", v |-> 0]
      [] x.t = "datetime" -> [t |-> "isostring", v |-> x.v]
      [] x.t = "list" -> [t |-> "array", v |-> [n \in DOMAIN x.v |-> Encode(x.v[n])]]
      [] x.t = "dict" -> [t |-> "object", v |-> [k \in DOMAIN x.v |-> Encode(x.v[k])]]
      [] OTHER -> [t |-> "unencoded", v |-> 0]

\* StartsWithUnderscore with a fault: only the function reference is taken
\* for an internal key
OnlyFuncKey(k) == k = "_func"

\* k.startswith('_') for the keys a record can hold
StartsWithUnderscore(k) == k \in {"_func", "_args", "_kwargs", "_tag"}

\* ------------------------------------------------- attributes of the class
\* what a class attribute of the pipeline is bound to: nothing, a tuple, an
\* int, or a method taking bm_data
AttrKinds == {"unset", "tuple", "int", "method"}

\* a pipeline class that sets none of env_vars, capture_versions and a
\* capture_note of its own
NoAttrs == [env_vars |-> "unset", capture_versions |-> "unset",
            capture_note |-> "unset"]

\* isinstance(x, collections.Iterable)
IsIterable(kind) == kind = "tuple"

\* Callable with a fault: every attribute named capture_ is taken for a hook
CallableAlways(kind) == kind # "unset"

\* callable(method)
Callable(kind) == kind = "method"

\* -------------------------------------------------------------- the state
VARIABLES
    mixins,            \* the capability classes mixed into the pipeline class
    telemetry,         \* hasattr(self, 'telemetry'): a sampling function is set
    outfile_is_path,   \* isinstance(self.outfile, str)
    bm_static,         \* self._bm_static
    attrs,             \* the class attributes env_vars, capture_versions, capture_note
    outfile,           \* what the destination holds: the chunks written, in order
    telemetry_thread,  \* self._telemetry_thread: 0 is "no such attribute"
    line_profiler,     \* self._line_profiler: calls its stats hold, -1 is unset
    sig_handler,       \* whose terminate handles SIGINT/SIGTERM: 0 is the default
    now,               \* the last reading of datetime.now()
    ncalls,            \* invocations of the wrapped function so far
    inv,               \* the invocations of inner(*args, **kwargs)
    thr,               \* the TelemetryThread each invocation created
    warnings           \* the warnings emitted so far

vars == <<mixins, telemetry, outfile_is_path, bm_static, attrs, outfile, telemetry_thread,
          line_profiler, sig_handler, now, ncalls, inv, thr, warnings>>

config == <<mixins, telemetry, outfile_is_path, bm_static, attrs>>

\* one invocation of inner: its program counter, its arguments, what the
\* wrapped function will do (beh), its locals bm_data, res and bm_str, the
\* exception it ended with (exc), how often it ran the wrapped function
\* (runs), what it returned to its caller (retval), the text buffered in and
\* the offset of its open file (fbuf, fpos), whether its join timed out and
\* how many samples the joined thread's list held when the join returned,
\* and the steps of the protocol it has taken so far, in order (steps)
IdleInv == [pc |-> "idle", args |-> <<>>, kwargs |-> EmptyDict, beh |-> "none",
            bm_data |-> EmptyDict, res |-> NoneVal, exc |-> "none", runs |-> 0,
            bm_str |-> <<>>, retval |-> NoneVal, fbuf |-> <<>>, fpos |-> 0,
            join_timed_out |-> FALSE, seen_at_join |-> 0, steps |-> <<>>]

\* one TelemetryThread: where its run() is (st), its _terminate event, the
\* list it appends to (slot, the object bm_data['telemetry'] refers to) and
\* the timestamp of the sample it is taking (ts, the local telem)
NoThread == [st |-> "none", terminate |-> FALSE, slot |-> <<>>, ts |-> 0]

InitState ==
    /\ outfile = <<>>
    /\ telemetry_thread = 0
    /\ line_profiler = -1
    /\ sig_handler = 0
    /\ now = 0
    /\ ncalls = 0
    /\ inv = [i \in Calls |-> IdleInv]
    /\ thr = [i \in Calls |-> NoThread]
    /\ warnings = 0

\* The pipelines of the sequential specification: every mix of the
\* capability classes, writing to a StringIO or to a file path, without a
\* telemetry function; and with a telemetry function the bare MicroBench and
\* the class with every capability mixed in, writing to a StringIO.
Init ==
    /\ mixins \in SUBSET Mixins
    /\ telemetry \in BOOLEAN
    /\ outfile_is_path \in BOOLEAN
    /\ telemetry => (mixins \in {{}, Mixins} /\ ~outfile_is_path)
    /\ bm_static \in StaticChoices
    /\ attrs = NoAttrs
    /\ InitState

Finished == {"returned", "raised"}
\* threading.Thread.is_alive()
IsAlive(s) == thr[s].st \in {"started", "sampling", "waiting", "round"}


\* ------------------------------------------------------------ the pipeline
\* json.dumps(bm_data, cls=self._json_encoder) reads the telemetry list
\* through the reference the record holds
Resolve(d) == [k \in DOMAIN d |->
                 IF d[k].t = "slot" THEN ListVal(thr[d[k].v].slot) ELSE d[k]]

Newline == [t |-> "newline", v |-> 0]

\* MicroBench.to_json followed by + '\n' in output_result
ToJson(d) == <<[t |-> "json", v |-> Encode(DictVal(Resolve(d)))], Newline>>

\* {k: v for k, v in bm_data.items() if not k.startswith('_')}
StripTransient(d) == [k \in {x \in DOMAIN d : ~StartsWithUnderscore(x)} |-> d[k]]

\* pre_run_triggers raises ValueError: env_vars or capture_versions is set
\* to something that is not iterable (lines 76-79 and 85-88)
NotIterableError ==
    \/ attrs.env_vars # "unset" /\ ~IsIterable(attrs.env_vars)
    \/ attrs.capture_versions # "unset" /\ ~IsIterable(attrs.capture_versions)

\* for env_var in self.env_vars: os.environ.get of a variable that is not
\* set (lines 81-82)
CaptureEnvVars(d) ==
    IF attrs.env_vars = "tuple" THEN Put(d, "env_TEST_NON_EXISTENT", NoneVal) ELSE d

\* for pkg in self.capture_versions: a module without __version__
\* (lines 90-91 and 124-132)
CapturePackageVersions(d) ==
    IF attrs.capture_versions = "tuple"
    THEN Put(d, "package_versions", DictVal([io |-> NoneVal]))
    ELSE d

\* the attributes dir(self) lists under the prefix capture_ that are bound
\* to something other than a hook of the library
OwnCaptureAttrs ==
    {a \in {"capture_note", "capture_versions"} : attrs[a] # "unset"}

\* method(bm_data) would be reached for an attribute that cannot be called
\* (line 98)
CallsNonCallable ==
    \E a \in OwnCaptureAttrs : Callable(attrs[a]) /\ attrs[a] # "method"

\* capture_function_name, the capture_ hooks of the mixins and the
\* capture_note of the class, each run if callable(method): lines 94-98
RunCaptureHooks(d) ==
    LET d1 == IF "MBFunctionCall" \in mixins
              THEN Put(Put(d, "args", d["_args"]), "kwargs", d["_kwargs"])
              ELSE d
        d2 == Put(d1, "function_name", FuncName)
        d3 == IF "MBLineProfiler" \in mixins
              THEN Put(d2, "line_profiler", [t |-> "b64str", v |-> line_profiler])
              ELSE d2
    IN  IF Callable(attrs.capture_note) THEN Put(d3, "note", IntVal) ELSE d3

\* NewRecord with a fault: the static fields are not copied into the record
NewRecordWithoutStatic(a, k) ==
    Put(Put(Put(EmptyDict, "_func", FuncVal), "_args", ListVal(a)), "_kwargs", DictVal(k))

\* the record inner starts from: the static fields, then the function and
\* its arguments under underscore keys (lines 154-158)
NewRecord(a, k) ==
    Put(Put(Put(bm_static, "_func", FuncVal), "_args", ListVal(a)), "_kwargs", DictVal(k))

\* inner(*args, **kwargs) is entered: lines 154-164
Enter(i, a, k, b) ==
    /\ inv[i].pc = "idle"
    /\ i = ncalls + 1
    /\ ncalls' = i
    /\ inv' = [inv EXCEPT ![i] = [@ EXCEPT
                 !.pc = "pre_run", !.args = a, !.kwargs = k, !.beh = b,
                 !.bm_data = NewRecord(a, k)]]
    /\ line_profiler' = IF "MBLineProfiler" \in mixins THEN 0 ELSE line_profiler
    /\ UNCHANGED <<config, outfile, telemetry_thread, sig_handler, now, thr, warnings>>

\* a call from the one thread of a sequential program
Call(i) ==
    /\ \A j \in 1..(i - 1) : inv[j].pc \in Finished
    /\ \E c \in CallChoices, b \in FuncBehaviours : Enter(i, c[1], c[2], b)

\* the steps pre_run_triggers takes before it raises ValueError: the
\* environment variables are captured if it is capture_versions that is
\* not iterable
StepsBeforeValueError ==
    IF IsIterable(attrs.env_vars) THEN <<"env_vars">> ELSE <<>>

\* the steps of lines 76-106, in the order of the code, each taken only if
\* its attribute is set
PreRunSteps ==
    (IF attrs.env_vars # "unset" THEN <<"env_vars">> ELSE <<>>)
    \o (IF attrs.capture_versions # "unset" THEN <<"capture_versions">> ELSE <<>>)
    \o <<"hooks">>
    \o (IF telemetry THEN <<"sampler_start">> ELSE <<>>)

\* pre_run_triggers up to the start of the telemetry thread: lines 76-106.
\* An exception raised there leaves inner.
PreRunTriggers(i) ==
    /\ inv[i].pc = "pre_run"
    /\ LET d == RunCaptureHooks(CapturePackageVersions(CaptureEnvVars(inv[i].bm_data)))
       IN  CASE NotIterableError ->
                  /\ inv' = [inv EXCEPT ![i].pc = "raised", ![i].exc = "ValueError",
                                        ![i].steps = @ \o StepsBeforeValueError]
                  /\ UNCHANGED <<thr, sig_handler, telemetry_thread>>
             [] ~NotIterableError /\ CallsNonCallable ->
                  /\ inv' = [inv EXCEPT ![i].pc = "raised", ![i].exc = "NotCallable"]
                  /\ UNCHANGED <<thr, sig_handler, telemetry_thread>>
             [] ~NotIterableError /\ ~CallsNonCallable /\ telemetry ->
                  /\ inv' = [inv EXCEPT ![i].pc = "start_time",
                                        ![i].bm_data = Put(d, "telemetry", SlotRef(i)),
                                        ![i].steps = @ \o PreRunSteps]
                  /\ thr' = [thr EXCEPT ![i] = [NoThread EXCEPT !.st = "started"]]
                  /\ sig_handler' = i
                  /\ telemetry_thread' = i
             [] OTHER ->
                  /\ inv' = [inv EXCEPT ![i].pc = "start_time", ![i].bm_data = d,
                                        ![i].steps = @ \o PreRunSteps]
                  /\ UNCHANGED <<thr, sig_handler, telemetry_thread>>
    /\ UNCHANGED <<config, outfile, line_profiler, now, ncalls, warnings>>

\* WithStartTime with a fault: the record is left without a start_time
WithoutStartTime(d, t) == d

\* bm_data['start_time'] = <the reading t of datetime.now()>
WithStartTime(d, t) == Put(d, "start_time", DatetimeVal(t))

\* bm_data['start_time'] = datetime.now(): line 109
StampStartTime(i) ==
    /\ inv[i].pc = "start_time"
    /\ \E t \in now..MaxTime :
          /\ now' = t
          /\ inv' = [inv EXCEPT ![i].pc = "call",
                                ![i].bm_data = WithStartTime(@, t),
                                ![i].steps = Append(@, "start_time")]
    /\ UNCHANGED <<config, outfile, telemetry_thread, line_profiler, sig_handler,
                   ncalls, thr, warnings>>

BehResult(b) == IF b = "return_obj" THEN ObjVal ELSE IntVal

\* AfterFunc with a fault: post_run_triggers is not called
AfterFuncSkipsPostRun(b) == IF b = "raise" THEN "raised" ELSE "finalize"

\* AfterFunc with a fault: post-run and output also follow a call that raised
AfterFuncAlways(b) == "post_run"

\* where inner continues after line 171: nothing in inner catches an
\* exception of func, so it leaves inner at once
AfterFunc(b) == IF b = "raise" THEN "raised" ELSE "post_run"

\* res = func(*args, **kwargs), or runcall under the line profiler: lines 168-171
RunFunc(i) ==
    /\ inv[i].pc = "call"
    /\ inv' = [inv EXCEPT ![i] = [@ EXCEPT
                 !.runs = @ + 1,
                 !.steps = Append(@, "call"),
                 !.pc = AfterFunc(inv[i].beh),
                 !.exc = IF inv[i].beh = "raise" THEN "FuncError" ELSE @,
                 !.res = IF inv[i].beh = "raise" THEN @ ELSE BehResult(inv[i].beh)]]
    /\ line_profiler' = IF "MBLineProfiler" \in mixins
                        THEN line_profiler + 1 ELSE line_profiler
    /\ UNCHANGED <<config, outfile, telemetry_thread, sig_handler, now, ncalls, thr,
                   warnings>>

\* AfterFinishTime with a fault: post-run does not stop and join the thread
SkipJoin(tt) == "finalize"

\* if hasattr(self, '_telemetry_thread'): line 116
AfterFinishTime(tt) == IF tt # 0 THEN "terminate" ELSE "finalize"

\* bm_data['finish_time'] = datetime.now(): line 113, and the test of line 116
StampFinishTime(i) ==
    /\ inv[i].pc = "post_run"
    /\ \E t \in now..MaxTime :
          /\ now' = t
          /\ inv' = [inv EXCEPT
                       ![i].pc = AfterFinishTime(telemetry_thread),
                       ![i].bm_data = Put(@, "finish_time", DatetimeVal(t)),
                       ![i].steps = Append(@, "finish_time")]
    /\ UNCHANGED <<config, outfile, telemetry_thread, line_profiler, sig_handler,
                   ncalls, thr, warnings>>

\* Terminated with a fault: the event is left clear
TerminateNoop(th) == th

\* TelemetryThread.terminate: self._terminate.set()
Terminated(th) == [th EXCEPT !.terminate = TRUE]

\* self._telemetry_thread.terminate(): line 117
TerminateTelemetry(i) ==
    /\ inv[i].pc = "terminate"
    /\ thr' = [thr EXCEPT ![telemetry_thread] = Terminated(@)]
    /\ inv' = [inv EXCEPT ![i].pc = "join", ![i].steps = Append(@, "stop_request")]
    /\ UNCHANGED <<config, outfile, telemetry_thread, line_profiler, sig_handler, now,
                   ncalls, warnings>>

\* self._telemetry_thread.join(timeout): line 119. It returns when the thread
\* has ended, or when the timeout has passed with the thread still alive.
JoinTelemetry(i) ==
    /\ inv[i].pc = "join"
    /\ \/ /\ ~IsAlive(telemetry_thread)
          /\ inv' = [inv EXCEPT ![i].pc = "finalize",
                                ![i].seen_at_join = Len(thr[telemetry_thread].slot),
                                ![i].steps = Append(@, "join")]
       \/ /\ IsAlive(telemetry_thread)
          /\ inv' = [inv EXCEPT ![i].pc = "finalize", ![i].join_timed_out = TRUE,
                                ![i].seen_at_join = Len(thr[telemetry_thread].slot),
                                ![i].steps = Append(@, "join")]
    /\ UNCHANGED <<config, outfile, telemetry_thread, line_profiler, sig_handler, now,
                   ncalls, thr, warnings>>

\* the record of lines 175-180: the return value if MBReturnValue is mixed
\* in, the underscore keys deleted
FinalRecord(i) ==
    StripTransient(IF "MBReturnValue" \in mixins
                   THEN Put(inv[i].bm_data, "return_value", inv[i].res)
                   ELSE inv[i].bm_data)

\* the steps of lines 175-180, in the order of the code
FinalSteps ==
    (IF "MBReturnValue" \in mixins THEN <<"return_value">> ELSE <<>>) \o <<"strip">>

\* lines 175-182 and to_json: the record is finished and encoded; a
\* TypeError of the encoder leaves inner
Serialize(i) ==
    /\ inv[i].pc = "finalize"
    /\ LET d == FinalRecord(i)
       IN  IF Encodable(DictVal(Resolve(d)))
           THEN inv' = [inv EXCEPT ![i].pc = IF outfile_is_path THEN "open" ELSE "write",
                                   ![i].bm_data = d, ![i].bm_str = ToJson(d),
                                   ![i].steps = @ \o FinalSteps \o <<"serialize">>]
           ELSE inv' = [inv EXCEPT ![i].pc = "raised", ![i].bm_data = d,
                                   ![i].exc = "TypeError",
                                   ![i].steps = @ \o FinalSteps]
    /\ UNCHANGED <<config, outfile, telemetry_thread, line_profiler, sig_handler, now,
                   ncalls, thr, warnings>>

\* StreamWrite with a fault: the stream is rewound before each write
StreamOverwrite(content, text) == text

\* write(text) on a StringIO that is only ever written to
StreamWrite(content, text) == content \o text

\* self.outfile.write(bm_str) on a file-like object, and return res:
\* lines 150 and 184
OutputStream(i) ==
    /\ inv[i].pc = "write"
    /\ outfile' = StreamWrite(outfile, inv[i].bm_str)
    /\ inv' = [inv EXCEPT ![i].pc = "returned", ![i].retval = inv[i].res,
                          ![i].steps = @ \o <<"append", "return">>]
    /\ UNCHANGED <<config, telemetry_thread, line_profiler, sig_handler, now, ncalls,
                   thr, warnings>>

\* WritePosition with a fault: the file is written at the offset it had when
\* it was opened, as without O_APPEND
WriteAtOpenOffset(content, opened_at) == opened_at

\* where a write() on a descriptor opened with mode 'a' (O_APPEND) lands:
\* at the end the file has at the time of the write
WritePosition(content, opened_at) == Len(content)

\* the file after data is written at offset p
WriteAt(content, p, data) ==
    SubSeq(content, 1, p) \o data \o SubSeq(content, p + Len(data) + 1, Len(content))

\* open(self.outfile, 'a'): line 146
OutputOpen(i) ==
    /\ inv[i].pc = "open"
    /\ inv' = [inv EXCEPT ![i].pc = "fwrite", ![i].fbuf = <<>>,
                          ![i].fpos = Len(outfile)]
    /\ UNCHANGED <<config, outfile, telemetry_thread, line_profiler, sig_handler, now,
                   ncalls, thr, warnings>>

\* f.write(bm_str): line 147; the text goes to the buffer of the file object
OutputWrite(i) ==
    /\ inv[i].pc = "fwrite"
    /\ inv' = [inv EXCEPT ![i].pc = "close", ![i].fbuf = @ \o inv[i].bm_str]
    /\ UNCHANGED <<config, outfile, telemetry_thread, line_profiler, sig_handler, now,
                   ncalls, thr, warnings>>

\* leaving the with block closes f, which flushes the buffer in one write()
\* on the descriptor; then return res: lines 146-147 and 184
OutputClose(i) ==
    /\ inv[i].pc = "close"
    /\ outfile' = WriteAt(outfile, WritePosition(outfile, inv[i].fpos), inv[i].fbuf)
    /\ inv' = [inv EXCEPT ![i].pc = "returned", ![i].fbuf = <<>>,
                          ![i].retval = inv[i].res,
                          ![i].steps = @ \o <<"append", "return">>]
    /\ UNCHANGED <<config, telemetry_thread, line_profiler, sig_handler, now, ncalls,
                   thr, warnings>>

\* --------------------------------------------------------- TelemetryThread
\* telem = {'timestamp': datetime.now()}: line 431
BeginSample(s, t) ==
    /\ now' = t
    /\ thr' = [thr EXCEPT ![s].st = "sampling", ![s].ts = t]

\* run() starts with _get_telemetry(): line 436
RunFirstSample(s) ==
    /\ thr[s].st = "started"
    /\ \E t \in now..MaxTime : BeginSample(s, t)
    /\ UNCHANGED <<config, outfile, telemetry_thread, line_profiler, sig_handler,
                   ncalls, inv, warnings>>

\* the sample of lines 431-432
Sample(s) == DictVal([timestamp |-> DatetimeVal(thr[s].ts), rss |-> IntVal])

\* self._telem_fn(self.process) returns and the sample is appended:
\* lines 432-433
TelemFnReturns(s) ==
    /\ thr[s].st = "sampling"
    /\ thr' = [thr EXCEPT ![s].st = "waiting", ![s].slot = Append(@, Sample(s)),
                          ![s].ts = 0]
    /\ UNCHANGED <<config, outfile, telemetry_thread, line_profiler, sig_handler, now,
                   ncalls, inv, warnings>>

\* self._telem_fn(self.process) raises: the exception leaves run() and ends
\* the thread, in which nothing catches it: line 432
TelemFnRaises(s) ==
    /\ thr[s].st = "sampling"
    /\ thr' = [thr EXCEPT ![s].st = "died", ![s].ts = 0]
    /\ UNCHANGED <<config, outfile, telemetry_thread, line_profiler, sig_handler, now,
                   ncalls, inv, warnings>>

\* WaitResult with a fault: the event is never seen set
WaitAlwaysTimesOut(th) == FALSE

\* what self._terminate.wait(self._interval) returns: True once the event
\* is set, False when the interval has passed with the event clear
WaitResult(th) == th.terminate

\* while not self._terminate.wait(self._interval): line 437. On True run()
\* ends; on False the thread goes on to the next round of the loop
WaitReturns(s) ==
    /\ thr[s].st = "waiting"
    /\ \/ /\ WaitResult(thr[s])
          /\ thr' = [thr EXCEPT ![s].st = "stopped"]
       \/ /\ ~WaitResult(thr[s])
          /\ Len(thr[s].slot) < MaxSamples
          /\ thr' = [thr EXCEPT ![s].st = "round"]
    /\ UNCHANGED <<config, outfile, telemetry_thread, line_profiler, sig_handler, now,
                   ncalls, inv, warnings>>

\* self._get_telemetry() in the loop: line 438, reached after a wait that
\* returned False, whatever has happened to the event since
RunNextSample(s) ==
    /\ thr[s].st = "round"
    /\ \E t \in now..MaxTime : BeginSample(s, t)
    /\ UNCHANGED <<config, outfile, telemetry_thread, line_profiler, sig_handler,
                   ncalls, inv, warnings>>

\* HandlerOf with a fault: the terminate of every sampler created so far
\* is called
HandlerOfEvery(s) == thr[s].st # "none"

\* the sampler whose bound terminate is the installed handler: each
\* TelemetryThread.__init__ replaces the handler of the one before it,
\* lines 418-419
HandlerOf(s) == s = sig_handler

\* SIGINT or SIGTERM arrives while a TelemetryThread's terminate is the
\* handler: lines 418-419 and 427-428. The handler runs in the main thread
\* and returns; whatever the main thread was doing goes on.
Signal ==
    /\ sig_handler # 0
    /\ thr' = [s \in Calls |->
                 IF HandlerOf(s) THEN Terminated(thr[s]) ELSE thr[s]]
    /\ UNCHANGED <<config, outfile, telemetry_thread, line_profiler, sig_handler, now,
                   ncalls, inv, warnings>>

\* ------------------------------------------------------ the specifications
Pipeline(i) ==
    \/ PreRunTriggers(i)
    \/ StampStartTime(i)
    \/ RunFunc(i)
    \/ StampFinishTime(i)
    \/ Serialize(i)

OutputPath(i) ==
    \/ OutputOpen(i)
    \/ OutputWrite(i)
    \/ OutputClose(i)

Telemetry(i) ==
    \/ TerminateTelemetry(i)
    \/ JoinTelemetry(i)
    \/ RunFirstSample(i)
    \/ TelemFnReturns(i)
    \/ TelemFnRaises(i)
    \/ WaitReturns(i)
    \/ RunNextSample(i)

Next ==
    \/ \E i \in Calls : Call(i)
    \/ \E i \in Calls : Pipeline(i)
    \/ \E i \in Calls : Telemetry(i)
    \/ \E i \in Calls : OutputStream(i)
    \/ \E i \in Calls : OutputPath(i)

\* sequential calls of one wrapped function from one thread
Spec == Init /\ [][Next]_vars

\* a call that may begin while another invocation is between two steps
CallConcurrently(i) ==
    \E c \in CallChoices, b \in FuncBehaviours : Enter(i, c[1], c[2], b)

\* a pipeline that captures arguments and return value, has no telemetry
\* function and appends to a file path
InitConcurrent ==
    /\ mixins = {"MBFunctionCall", "MBReturnValue"}
    /\ telemetry = FALSE
    /\ outfile_is_path = TRUE
    /\ bm_static \in StaticChoices
    /\ attrs = NoAttrs
    /\ InitState

NextConcurrent ==
    \/ \E i \in Calls : CallConcurrently(i)
    \/ \E i \in Calls : Pipeline(i)
    \/ \E i \in Calls : OutputPath(i)

\* invocations of one pipeline from several threads, on one file
SpecConcurrent == InitConcurrent /\ [][NextConcurrent]_vars

\* Pipelines without a telemetry function that write to a StringIO: the
\* classes of test_function, test_multi_iterations,
\* test_unjsonencodable_arg_kwarg_retval and test_line_profiler, and classes
\* that bind capture_note, capture_versions or env_vars to a method, an int
\* or a tuple, some constructed with an underscore keyword argument
HookPipelines ==
    {[mixins |-> {"MBFunctionCall"}, bm_static |-> SomeInfo,
      attrs |-> [NoAttrs EXCEPT !.env_vars = "tuple", !.capture_versions = "tuple"]],
     [mixins |-> {}, bm_static |-> IterationsStatic, attrs |-> NoAttrs],
     [mixins |-> {"MBFunctionCall", "MBReturnValue"}, bm_static |-> EmptyDict,
      attrs |-> NoAttrs],
     [mixins |-> {"MBLineProfiler"}, bm_static |-> EmptyDict, attrs |-> NoAttrs],
     [mixins |-> {"MBReturnValue"}, bm_static |-> TaggedStatic,
      attrs |-> [NoAttrs EXCEPT !.capture_note = "int"]],
     [mixins |-> {}, bm_static |-> SomeInfo,
      attrs |-> [NoAttrs EXCEPT !.capture_note = "method"]],
     [mixins |-> {}, bm_static |-> SomeInfo,
      attrs |-> [NoAttrs EXCEPT !.capture_note = "tuple", !.capture_versions = "method"]],
     [mixins |-> {}, bm_static |-> TaggedStatic,
      attrs |-> [NoAttrs EXCEPT !.env_vars = "int"]]}

InitHooks ==
    /\ \E p \in HookPipelines :
          /\ mixins = p.mixins
          /\ bm_static = p.bm_static
          /\ attrs = p.attrs
    /\ telemetry = FALSE
    /\ outfile_is_path = FALSE
    /\ InitState

NextHooks ==
    \/ \E i \in Calls : Call(i)
    \/ \E i \in Calls : Pipeline(i)
    \/ \E i \in Calls : OutputStream(i)

\* sequential calls on a pipeline of HookPipelines
SpecHooks == InitHooks /\ [][NextHooks]_vars

\* the wrapped function of an invocation that is running calls a function
\* wrapped by the same pipeline: invocation i begins inside the innermost
\* invocation that has not finished
CallNested(i) ==
    /\ \E j \in 1..(i - 1) :
          /\ inv[j].pc = "call"
          /\ \A k \in (j + 1)..(i - 1) : inv[k].pc \in Finished
    /\ \E c \in CallChoices, b \in FuncBehaviours : Enter(i, c[1], c[2], b)

\* the wrapped function of invocation i ends only after the calls it made
NoNestedRunning(i) ==
    \A j \in Calls : j > i => inv[j].pc \in Finished \cup {"idle"}

PipelineNested(i) ==
    \/ PreRunTriggers(i)
    \/ StampStartTime(i)
    \/ NoNestedRunning(i) /\ RunFunc(i)
    \/ StampFinishTime(i)
    \/ Serialize(i)

\* the bare MicroBench with a telemetry function, writing to a StringIO
InitOverlap ==
    /\ mixins = {}
    /\ telemetry = TRUE
    /\ outfile_is_path = FALSE
    /\ bm_static = SomeInfo
    /\ attrs = NoAttrs
    /\ InitState

NextOverlap ==
    \/ \E i \in Calls : Call(i)
    \/ \E i \in Calls : CallNested(i)
    \/ \E i \in Calls : PipelineNested(i)
    \/ \E i \in Calls : Telemetry(i)
    \/ \E i \in Calls : OutputStream(i)

\* calls on one telemetry pipeline from one thread, some of them made
\* while an earlier invocation is still in its wrapped function
SpecOverlap == InitOverlap /\ [][NextOverlap]_vars

\* a class with every capability mixed in that sets env_vars and
\* capture_versions and defines a capture_note hook: with a telemetry
\* function and a StringIO, or without one and with a file path
InitProtocol ==
    /\ mixins = Mixins
    /\ telemetry \in BOOLEAN
    /\ outfile_is_path = ~telemetry
    /\ bm_static = SomeInfo
    /\ attrs = [env_vars |-> "tuple", capture_versions |-> "tuple",
                capture_note |-> "method"]
    /\ InitState

\* sequential calls on a pipeline that takes every step of the protocol
SpecProtocol == InitProtocol /\ [][Next]_vars

\* sequential calls on the bare telemetry pipeline, with SIGINT and SIGTERM
\* arriving at any time
NextInterrupt ==
    \/ \E i \in Calls : Call(i)
    \/ \E i \in Calls : Pipeline(i)
    \/ \E i \in Calls : Telemetry(i)
    \/ \E i \in Calls : OutputStream(i)
    \/ Signal

SpecInterrupt == InitOverlap /\ [][NextInterrupt]_vars

\* the sequential program with SIGINT and SIGTERM arriving at any time
SpecSignal == Init /\ [][Next \/ Signal]_vars

\* ---------------------------------------------------- reading the records
Returned == {i \in Calls : inv[i].pc = "returned"}

\* the wrapped function of invocation i was run and returned normally
FuncReturned(i) == inv[i].runs > 0 /\ inv[i].beh # "raise"

NumLines(content) ==
    Cardinality({n \in DOMAIN content : content[n].t = "newline"})

\* every line of the destination is one JSON text and then its newline
WellFormed(content) ==
    /\ Len(content) % 2 = 0
    /\ \A n \in DOMAIN content :
          content[n].t = IF n % 2 = 1 THEN "json" ELSE "newline"

\* one complete line: a JSON object followed by a newline
IsLine(text) == Len(text) = 2 /\ text[1].t = "json" /\ text[1].v.t = "object"
                /\ text[2] = Newline

\* the telemetry array of an encoded line
TelemetryOf(text) == text[1].v.v["telemetry"].v

RECURSIVE LinesUpTo(_)
\* the lines of the invocations 1..n that returned, in call order
LinesUpTo(n) ==
    IF n = 0 THEN <<>>
    ELSE LinesUpTo(n - 1) \o (IF inv[n].pc = "returned" THEN inv[n].bm_str ELSE <<>>)

\* ------------------------------------------------------------- the claims

\* C1: when the wrapped function raises, that exception leaves the wrapper
\* and no line is produced for the invocation; at every moment the
\* destination holds as many lines as invocations have returned normally.
C1_NoRecordForFailedCall ==
    /\ NumLines(outfile) = Cardinality(Returned)
    /\ \A i \in Calls :
          (inv[i].runs > 0 /\ inv[i].beh = "raise")
              => /\ inv[i].pc = "raised"
                 /\ inv[i].exc = "FuncError"
                 /\ inv[i].bm_str = <<>>

\* one invocation has raised the function's exception, another has returned
C1_Witness ==
    \E i, j \in Calls :
        /\ inv[i].exc = "FuncError" /\ inv[i].pc = "raised"
        /\ inv[j].pc = "returned"
        /\ NumLines(outfile) = 1

\* C2: an invocation whose wrapped function returned normally ends by
\* returning that very value to the caller, having run the wrapped function
\* exactly once with the caller's arguments, whatever is mixed in.
C2_WrapperReturnsResult ==
    \A i \in Calls :
        (FuncReturned(i) /\ inv[i].pc \in Finished)
            => /\ inv[i].pc = "returned"
               /\ inv[i].retval = inv[i].res
               /\ inv[i].runs = 1

\* C3: serialization never fails: no invocation ends with the encoder's
\* TypeError, and every invocation whose wrapped function returned produces
\* its line.
C3_SerializationNeverFails ==
    \A i \in Calls :
        /\ inv[i].exc # "TypeError"
        /\ (FuncReturned(i) /\ inv[i].pc \in Finished) => IsLine(inv[i].bm_str)

\* the sentinel the serializer is to put in the place of an unencodable leaf
PlaceholderSentinel == [t |-> "placeholder", v |-> 0]

RECURSIVE EncodeWithPlaceholder(_)
\* the encoding the claim describes: Encode, with the sentinel for a leaf
\* that JSONEncoder.default cannot encode
EncodeWithPlaceholder(x) ==
    CASE x.t = "list" ->
           [t |-> "array", v |-> [n \in DOMAIN x.v |-> EncodeWithPlaceholder(x.v[n])]]
      [] x.t = "dict" ->
           [t |-> "object", v |-> [k \in DOMAIN x.v |-> EncodeWithPlaceholder(x.v[k])]]
      [] OTHER -> IF Encodable(x) THEN Encode(x) ELSE PlaceholderSentinel

RECURSIVE UnencodableLeaves(_)
RECURSIVE SumLeaves(_, _)
\* the leaves of x that JSONEncoder.default cannot encode
UnencodableLeaves(x) ==
    CASE x.t \in {"list", "dict"} -> SumLeaves(x.v, DOMAIN x.v)
      [] OTHER -> IF Encodable(x) THEN 0 ELSE 1

SumLeaves(f, S) ==
    IF S = {} THEN 0
    ELSE LET k == CHOOSE y \in S : TRUE
         IN  UnencodableLeaves(f[k]) + SumLeaves(f, S \ {k})

RECURSIVE WarningsDue(_)
\* one warning for each unencodable leaf of the records serialized so far
WarningsDue(S) ==
    IF S = {} THEN 0
    ELSE LET i == CHOOSE y \in S : TRUE
         IN  UnencodableLeaves(DictVal([k \in DOMAIN inv[i].bm_data \ {"telemetry"}
                                          |-> inv[i].bm_data[k]]))
             + WarningsDue(S \ {i})

\* C4: the line of every serialized record holds the sentinel exactly where
\* the record holds an unencodable leaf and the encoding of every other
\* value unchanged, and one warning has been emitted per unencodable leaf.
C4_PlaceholderPerLeaf ==
    LET done == {i \in Calls : FuncReturned(i) /\ inv[i].pc \in Finished}
    IN  /\ \A i \in done :
              /\ IsLine(inv[i].bm_str)
              /\ \A k \in DOMAIN inv[i].bm_data \ {"telemetry"} :
                    inv[i].bm_str[1].v.v[k] = EncodeWithPlaceholder(inv[i].bm_data[k])
        /\ warnings = WarningsDue(done)

\* C5: the record persisted by a call on a pipeline with a telemetry
\* function holds at least one sample. Stated for the calls whose join
\* returned with the sampler thread ended, where no timeout can excuse an
\* empty sequence.
C5_AtLeastOneSample ==
    \A i \in Calls :
        (telemetry /\ inv[i].pc = "returned" /\ ~inv[i].join_timed_out)
            => Len(TelemetryOf(inv[i].bm_str)) >= 1

\* C6 as claimed: once a call on a telemetry pipeline has returned, the
\* sampler thread it started is no longer running.
C6_SamplerStoppedOnReturn ==
    \A i \in Calls : (telemetry /\ inv[i].pc = "returned") => ~IsAlive(i)

\* C6 as amended: once a call on a telemetry pipeline has returned, stop has
\* been requested of the sampler thread it started, and that thread is no
\* longer running unless the bounded join timed out.
C6_StopRequestedOnReturn ==
    \A i \in Calls :
        (telemetry /\ inv[i].pc = "returned")
            => /\ thr[i].terminate
               /\ IsAlive(i) => inv[i].join_timed_out

\* a call has returned after a join that timed out, its sampler still alive
C6_Witness ==
    \E i \in Calls :
        /\ telemetry /\ inv[i].pc = "returned"
        /\ inv[i].join_timed_out /\ IsAlive(i)

\* C7: when the sampling function raised in the sampler thread of a call
\* before its join returned, the call ends in failure, not in a return.
C7_SamplerErrorFailsCall ==
    \A i \in Calls :
        (thr[i].st = "died" /\ ~inv[i].join_timed_out /\ inv[i].pc \in Finished)
            => inv[i].pc = "raised"

\* C8: a call whose join timed out ends by returning the wrapped function's
\* result, with a line persisted whose telemetry holds at least the samples
\* collected when the join returned.
C8_JoinTimeoutNotFatal ==
    \A i \in Calls :
        (inv[i].join_timed_out /\ inv[i].pc \in Finished)
            => /\ inv[i].pc = "returned"
               /\ inv[i].retval = inv[i].res
               /\ IsLine(inv[i].bm_str)
               /\ Len(TelemetryOf(inv[i].bm_str)) >= inv[i].seen_at_join

\* C9: the destination holds exactly the lines of the invocations that
\* returned normally, one complete newline-terminated JSON line each, in
\* call order; so a later call leaves the earlier lines as they were.
C9_OneLinePerCallInOrder ==
    /\ outfile = LinesUpTo(MaxCalls)
    /\ \A i \in Returned : IsLine(inv[i].bm_str)

\* two calls have returned and their two different lines are both there
C9_Witness ==
    /\ Returned = {1, 2}
    /\ inv[1].bm_str # inv[2].bm_str
    /\ Len(outfile) = 4

\* how often the JSON text tok occurs in the destination
Occurrences(content, tok) == Cardinality({n \in DOMAIN content : content[n] = tok})

\* C10: with invocations of one pipeline appending to one file concurrently,
\* the file holds complete lines only, exactly one for each invocation that
\* has done its open, write and close: none lost, none cut, none mixed.
C10_ConcurrentAppendsWhole ==
    /\ WellFormed(outfile)
    /\ NumLines(outfile) = Cardinality(Returned)
    /\ \A i \in Returned :
          Occurrences(outfile, inv[i].bm_str[1])
              = Cardinality({j \in Returned : inv[j].bm_str = inv[i].bm_str})

\* two invocations had the file open at once (both opened it empty) and
\* both have written and returned
C10_Witness ==
    /\ Returned = {1, 2}
    /\ inv[1].fpos = 0 /\ inv[2].fpos = 0
    /\ Len(outfile) = 4

\* the persisted record of invocation i, as the object of its JSON line
Persisted(i) == inv[i].bm_str[1].v.v

\* C11: in every persisted record finish_time is strictly greater than
\* start_time.
C11_FinishAfterStart ==
    \A i \in Returned : Persisted(i)["finish_time"].v > Persisted(i)["start_time"].v

\* the keys the pipeline keeps for itself during one run
TransientKeys == {"_func", "_args", "_kwargs", "_tag"}

\* the invocations whose record has been handed to output_result
HandedOver ==
    {i \in Calls : inv[i].pc \in {"write", "open", "fwrite", "close", "returned"}
                   \/ inv[i].exc = "TypeError"}

\* C12: a record handed to the serializer holds no transient key: not the
\* function reference, not the positional or keyword arguments, not any
\* other underscore key, and neither does the line made from it.
C12_NoTransientKeyHandedOver ==
    \A i \in HandedOver :
        /\ DOMAIN inv[i].bm_data \cap TransientKeys = {}
        /\ inv[i].bm_str # <<>> => DOMAIN Persisted(i) \cap TransientKeys = {}

\* a pipeline constructed with an underscore keyword argument has persisted
\* a record, which until then held _func, _args, _kwargs and _tag
C12_Witness ==
    /\ "_tag" \in DOMAIN bm_static
    /\ \E i \in Returned : "some_info" \in DOMAIN Persisted(i)

\* the keys the hooks and capabilities of the pipeline write
HookKeys ==
    {"function_name"}
    \cup (IF "MBFunctionCall" \in mixins THEN {"args", "kwargs"} ELSE {})
    \cup (IF "MBLineProfiler" \in mixins THEN {"line_profiler"} ELSE {})
    \cup (IF "MBReturnValue" \in mixins THEN {"return_value"} ELSE {})
    \cup (IF attrs.capture_note = "method" THEN {"note"} ELSE {})
    \cup (IF attrs.env_vars = "tuple" THEN {"env_TEST_NON_EXISTENT"} ELSE {})
    \cup (IF attrs.capture_versions = "tuple" THEN {"package_versions"} ELSE {})

\* the timing and telemetry keys the pipeline writes itself
PipelineKeys ==
    {"start_time", "finish_time"} \cup (IF telemetry THEN {"telemetry"} ELSE {})

\* C13 as claimed: the key set of every persisted record is exactly the
\* static fields given at construction, whatever their names, the keys of
\* the hooks and the pipeline's own timing and telemetry keys.
C13_KeysAreExactlyTheUnion ==
    \A i \in Returned :
        DOMAIN Persisted(i) = DOMAIN bm_static \cup HookKeys \cup PipelineKeys

\* C13 as amended: the same, for the static fields whose name does not
\* begin with an underscore; one whose name does is never persisted.
C13_KeysExceptUnderscoreStatics ==
    \A i \in Returned :
        DOMAIN Persisted(i) =
            {k \in DOMAIN bm_static : k \notin TransientKeys}
                \cup HookKeys \cup PipelineKeys

\* a record of a pipeline constructed with some_info and _tag was persisted
C13_Witness ==
    /\ DOMAIN bm_static = {"some_info", "_tag"}
    /\ \E i \in Returned : "return_value" \in DOMAIN Persisted(i)

\* C14: on a pipeline constructed with iterations = N, one invocation runs
\* the wrapped function N times, returns the last result, and persists one
\* record whose run_durations has N entries.
C14_RunsEveryIteration ==
    \A i \in Returned :
        "iterations" \in DOMAIN bm_static
            => /\ inv[i].runs = Iterations
               /\ inv[i].retval = inv[i].res
               /\ "run_durations" \in DOMAIN Persisted(i)
               /\ Len(Persisted(i)["run_durations"].v) = Iterations

\* the class binds a capture_ attribute of its own to something that
\* cannot be called, and nothing else is wrong with the class
NonCallableHook ==
    /\ attrs.capture_note \in {"int", "tuple"}
    /\ ~NotIterableError

\* C15 as claimed: with a capture_ attribute that cannot be called, no call
\* gets as far as running the wrapped function or persisting a record.
C15_NonCallableHookFailsFast ==
    NonCallableHook => \A i \in Calls : inv[i].runs = 0 /\ inv[i].bm_str = <<>>

\* C15 as amended: a capture_ attribute that cannot be called is passed
\* over: it raises nothing, the call proceeds, and the record is persisted
\* without a key from it.
C15_NonCallableHookSkipped ==
    NonCallableHook =>
        \A i \in Calls :
            /\ inv[i].exc \notin {"ValueError", "NotCallable"}
            /\ inv[i].pc \in Finished /\ inv[i].beh = "return_int"
                  => /\ inv[i].pc = "returned"
                     /\ "note" \notin DOMAIN Persisted(i)

\* a call on a class with capture_note = <an int> has persisted its record
C15_Witness ==
    /\ NonCallableHook
    /\ \E i \in Returned : inv[i].runs = 1 /\ NumLines(outfile) >= 1

\* C16: the profile persisted in a record of a profiling pipeline holds the
\* timings of that invocation's run of the wrapped function.
C16_ProfileHoldsTheCall ==
    \A i \in Returned :
        "MBLineProfiler" \in mixins => Persisted(i)["line_profiler"].v >= 1

\* C17 as claimed: once stop has been requested of a sampler, it begins no
\* sample at all any more, its first sample included.
C17_NoSampleBegunAfterStop ==
    [][\A s \in Calls :
          thr[s].terminate => ~(thr[s].st # "sampling" /\ thr'[s].st = "sampling")]_vars

\* C17 as amended: once stop has been requested of a sampler, its wait never
\* again ends by the interval passing, so no round of the loop begins; a
\* sample begun after the request is the first sample of run() or that of a
\* round whose wait had already returned.
C17_NoRoundBegunAfterStop ==
    [][\A s \in Calls :
          thr[s].terminate =>
              /\ thr[s].st # "round" => thr'[s].st # "round"
              /\ (thr[s].st # "sampling" /\ thr'[s].st = "sampling")
                    => thr[s].st \in {"started", "round"}]_vars

\* stop was requested and the join timed out before the sampler had taken
\* any sample; the sampler then took its first sample and stopped
C17_Witness ==
    \E s \in Calls :
        /\ thr[s].terminate /\ thr[s].st = "stopped"
        /\ inv[s].join_timed_out /\ inv[s].seen_at_join = 0
        /\ Len(thr[s].slot) = 1

\* C18: with overlapping invocations of a telemetry pipeline, the post-run
\* of each invocation stops and joins the sampler that invocation started,
\* and once every invocation has returned after a join that did not time
\* out, no sampler is running.
C18_OwnSamplerStoppedAndJoined ==
    /\ \A i \in Calls : inv[i].pc \in {"terminate", "join"} => telemetry_thread = i
    /\ (\A i \in Calls : inv[i].pc = "returned" /\ ~inv[i].join_timed_out)
          => \A s \in Calls : ~IsAlive(s)

\* the record of invocation i is being encoded in this step
ReadsTelemetry(i) == inv[i].pc = "finalize" /\ inv'[i].pc # "finalize"

\* C19 as claimed: whenever the serializer reads the telemetry list of a
\* record, the sampler that appends to it has ended, also after a join that
\* timed out.
C19_ReadOnlyAfterStopped ==
    [][\A i \in Calls :
          (telemetry /\ ReadsTelemetry(i)) => thr[i].st \in {"stopped", "died"}]_vars

\* C19 as amended: whenever the serializer reads the telemetry list of a
\* record, the bounded join has returned: the sampler has ended, unless the
\* join timed out.
C19_ReadAfterJoinReturned ==
    [][\A i \in Calls :
          (telemetry /\ ReadsTelemetry(i))
              => thr[i].st \in {"stopped", "died"} \/ inv[i].join_timed_out]_vars

\* after a join that timed out, the sampler appended a sample before the
\* serializer read the list: the line holds more samples than the join saw
C19_Witness ==
    \E i \in Returned :
        /\ telemetry /\ inv[i].join_timed_out
        /\ Len(TelemetryOf(inv[i].bm_str)) > inv[i].seen_at_join

\* C20 as claimed: no sample of a persisted record has a timestamp earlier
\* than the start_time of the record.
C20_NoSampleBeforeStartTime ==
    \A i \in Returned :
        telemetry =>
            \A n \in DOMAIN TelemetryOf(inv[i].bm_str) :
                TelemetryOf(inv[i].bm_str)[n].v["timestamp"].v
                    >= Persisted(i)["start_time"].v

\* C20 as amended: start_time is stamped before the wrapped function is
\* run, and on a telemetry pipeline only after the sampler of the call has
\* been started.
C20_StartTimeAfterSamplerStart ==
    \A i \in Calls :
        /\ (inv[i].pc = "call" \/ inv[i].runs > 0) => "start_time" \in DOMAIN inv[i].bm_data
        /\ (telemetry /\ "start_time" \in DOMAIN inv[i].bm_data) => thr[i].st # "none"

\* a persisted record whose first sample is earlier than its start_time
C20_Witness ==
    \E i \in Returned :
        /\ telemetry
        /\ Len(TelemetryOf(inv[i].bm_str)) >= 1
        /\ TelemetryOf(inv[i].bm_str)[1].v["timestamp"].v < Persisted(i)["start_time"].v

\* the steps of one invocation in the order the protocol gives them
StepOrder ==
    <<"env_vars", "capture_versions", "hooks", "sampler_start", "start_time", "call",
      "finish_time", "stop_request", "join", "return_value", "strip", "serialize",
      "append", "return">>

Rank(step) == CHOOSE n \in DOMAIN StepOrder : StepOrder[n] = step

\* the steps invocation i has taken
StepsTaken(i) == {inv[i].steps[n] : n \in DOMAIN inv[i].steps}

\* the steps an invocation of this pipeline takes when nothing raises
StepsDue ==
    {"hooks", "start_time", "call", "finish_time", "strip", "serialize", "append",
     "return"}
    \cup (IF attrs.env_vars # "unset" THEN {"env_vars"} ELSE {})
    \cup (IF attrs.capture_versions # "unset" THEN {"capture_versions"} ELSE {})
    \cup (IF telemetry THEN {"sampler_start", "stop_request", "join"} ELSE {})
    \cup (IF "MBReturnValue" \in mixins THEN {"return_value"} ELSE {})

\* what the record, the sampler and the destination show of each step
StepsShow(i) ==
    LET S == StepsTaken(i)
        d == inv[i].bm_data
    IN  /\ "hooks" \in S <=> "function_name" \in DOMAIN d
        /\ "sampler_start" \in S <=> thr[i].st # "none"
        /\ "start_time" \in S <=> "start_time" \in DOMAIN d
        /\ "call" \in S <=> inv[i].runs > 0
        /\ "finish_time" \in S <=> "finish_time" \in DOMAIN d
        /\ "stop_request" \in S => thr[i].terminate
        /\ "join" \in S <=> inv[i].pc \notin {"idle", "terminate", "join"}
                                /\ "stop_request" \in S
        /\ "return_value" \in S <=> "return_value" \in DOMAIN d
        /\ "strip" \in S <=> inv[i].pc # "idle" /\ "_func" \notin DOMAIN d
        /\ "serialize" \in S <=> inv[i].bm_str # <<>>
        /\ "append" \in S => Occurrences(outfile, inv[i].bm_str[1]) >= 1
        /\ "append" \in S <=> inv[i].pc = "returned"
        /\ "return" \in S <=> inv[i].pc = "returned"

\* C21: every invocation takes the steps of the protocol in the order
\* environment variables, package versions, hooks, sampler start,
\* start_time, wrapped function, finish_time, stop request, join, return
\* value, stripping, serialization, append, return; the record, the sampler
\* and the destination show exactly the steps taken; and an invocation that
\* has returned has taken every step its pipeline is configured for.
C21_StepsInOrder ==
    \A i \in Calls :
        /\ \A m, n \in DOMAIN inv[i].steps :
              m < n => Rank(inv[i].steps[m]) < Rank(inv[i].steps[n])
        /\ StepsShow(i)
        /\ inv[i].pc = "returned" => StepsTaken(i) = StepsDue

\* a call on the telemetry pipeline has returned having taken all fourteen
\* steps, after a call that raised in the wrapped function
C21_Witness ==
    \E i, j \in Calls :
        /\ inv[i].pc = "returned" /\ inv[i].steps = StepOrder
        /\ inv[j].exc = "FuncError"

\* a sampler that has been started and of which stop has not been requested
Running(s) == IsAlive(s) /\ ~thr[s].terminate

\* invocation s has not requested the stop of its sampler itself
NotYetRequested(s) ==
    \A n \in DOMAIN inv[s].steps : inv[s].steps[n] # "stop_request"

\* the stop event of sampler s is set and invocation s did not set it: a
\* signal did
BySignal(s) == thr[s].terminate /\ NotYetRequested(s)

\* a signal sets the stop event of sampler s in this step
SignalledNow(s) == ~thr[s].terminate /\ BySignal(s)'

C23_SamplerStoppedWhenFuncRaises ==
    \A i \in Calls :
        (telemetry /\ inv[i].exc = "FuncError") => thr[i].terminate

\* C24: when no call is in progress, the handler of SIGINT and SIGTERM is
\* the one installed before any call: no sampler's terminate.
C24_HandlersRestored ==
    (\A i \in Calls : inv[i].pc \in {"idle", "returned"}) => sig_handler = 0

====
